---- MODULE Spec2Model ----
(***************************************************************************)
(* Newton fractal renderer (src/main.rs): complex polynomials built from   *)
(* a root list, the per-point Newton classifier try_point, the             *)
(* rasterization loop of main and the PPM encoder write_ppm.               *)
(*                                                                         *)
(* Numbers.  The program computes in f32.  The model computes in a binary  *)
(* floating-point format of the same shape with fewer bits: Prec           *)
(* significand bits, a least spacing of 2^-FracBits (the subnormal         *)
(* spacing), a largest finite value MaxFinite, round-to-nearest-even       *)
(* after every single operation, +inf, -inf and NaN.  A finite value v is  *)
(* held as the integer v * 2^FracBits.  The sign of zero is not held: the  *)
(* program divides only by norm_sqr (a sum of two squares, never -0), and  *)
(* compares with ==, for which -0 == 0.                                    *)
(*                                                                         *)
(* Sequences are 1-based here and 0-based in the source: coefficient k of  *)
(* the source is cs[k+1], root index i of the source is roots[i+1].        *)
(* Indices that the claims speak of (the returned root index, canvas       *)
(* offsets) are kept 0-based as in the source.                             *)
(***************************************************************************)
EXTENDS Integers, Sequences, FiniteSets, TLC

\* ---------------------------------------------------------------- bounds
\* Significand bits of the float format (24 in f32).
Prec == 5
\* The least spacing of the format is 2^-FracBits (2^-149 in f32).
FracBits == 4
\* The largest finite value is (2^Prec - 1) * 2^TopShift spacings.
TopShift == 5
\* Longest root list drawn as an input of the pure functions.
MaxRoots == 2

\* ------------------------------------------------------ program constants
\* const PPX: the scale, pixels per unit (100 in the source; scaled down).
PPX == 1
WIDTH == 8 * PPX
HEIGHT == 6 * PPX
STEPS == 20

\* ------------------------------------------------------------ f32 values
\* Every operator below binds its arguments and intermediate results to
\* values (x \in {a}) before using them, so that each is computed once,
\* as the program computes it; Only takes the one element of such a set.
Only(S) == CHOOSE r \in S : TRUE

One == 2 ^ FracBits
MaxFinite == (2 ^ Prec - 1) * (2 ^ TopShift)
PINF == 2 * MaxFinite
NINF == -PINF
NAN == 3 * MaxFinite

Abs(n) == IF n < 0 THEN -n ELSE n

\* The number of bits of n (0 <= n < 2^30).
BitLen(n) == CHOOSE k \in 0..30 : n < 2 ^ k /\ (k = 0 \/ 2 ^ (k - 1) <= n)

\* Spacing of the format around the magnitude q (in units of 2^-FracBits).
Ulp(q) == IF q < 2 ^ Prec THEN 1 ELSE 2 ^ (BitLen(q) - Prec)

\* a/den (a >= 0, den > 0) rounded to the nearest multiple of the spacing u,
\* ties to even, overflowing to +inf.
RoundMag(a, den, u) ==
    Only({IF m > MaxFinite THEN PINF ELSE m :
          m \in {(IF (2 * (a % (den * u)) > den * u)
                     \/ (2 * (a % (den * u)) = den * u /\ (a \div (den * u)) % 2 = 1)
                  THEN a \div (den * u) + 1
                  ELSE a \div (den * u)) * u}})

\* num/den (den > 0, in units of 2^-FracBits) rounded to the nearest value of
\* the format, ties to even, overflowing to an infinity.
RoundRat(num, den) ==
    Only({IF n < 0 THEN -r ELSE r :
          n \in {num},
          r \in {RoundMag(a, d, Ulp(a \div d)) : a \in {Abs(num)}, d \in {den}}})

IsNan(a) == a = NAN
IsInf(a) == a = PINF \/ a = NINF
Sgn(a) == IF a < 0 THEN -1 ELSE IF a > 0 THEN 1 ELSE 0

\* i32 as f32
FromInt(k) == RoundRat(k * One, 1)

FNeg(a) == Only({IF IsNan(x) THEN NAN ELSE -x : x \in {a}})

FAdd(a, b) ==
    Only({IF IsNan(x) \/ IsNan(y) THEN NAN
          ELSE IF IsInf(x) THEN (IF IsInf(y) /\ x # y THEN NAN ELSE x)
          ELSE IF IsInf(y) THEN y
          ELSE RoundRat(x + y, 1) : x \in {a}, y \in {b}})

FSub(a, b) == FAdd(a, FNeg(b))

FMul(a, b) ==
    Only({IF IsNan(x) \/ IsNan(y) THEN NAN
          ELSE IF IsInf(x) \/ IsInf(y)
               THEN (IF x = 0 \/ y = 0 THEN NAN
                     ELSE IF Sgn(x) * Sgn(y) > 0 THEN PINF ELSE NINF)
          ELSE RoundRat(x * y, One) : x \in {a}, y \in {b}})

FDiv(a, b) ==
    Only({IF IsNan(x) \/ IsNan(y) THEN NAN
          ELSE IF IsInf(x)
               THEN (IF IsInf(y) THEN NAN
                     ELSE IF Sgn(x) * (IF y < 0 THEN -1 ELSE 1) > 0 THEN PINF
                     ELSE NINF)
          ELSE IF IsInf(y) THEN 0
          ELSE IF y = 0
               THEN (IF x = 0 THEN NAN ELSE IF x > 0 THEN PINF ELSE NINF)
          ELSE IF y < 0 THEN RoundRat((-x) * One, -y)
          ELSE RoundRat(x * One, y) : x \in {a}, y \in {b}})

\* floor of the square root of s, searched between lo and hi
RECURSIVE ISqrtFrom(_, _, _)
ISqrtFrom(s, lo, hi) ==
    IF lo = hi THEN lo
    ELSE Only({IF mid * mid <= s THEN ISqrtFrom(s, mid, hi)
               ELSE ISqrtFrom(s, lo, mid - 1) : mid \in {(lo + hi + 1) \div 2}})

\* The value of the format nearest to the square root of s, which lies
\* between lo and lo + u, two neighbours of the format.
SqrtBetween(s, lo, u) ==
    IF lo * lo = s THEN lo
    ELSE IF u = 1 THEN (IF s > lo * lo + lo THEN lo + 1 ELSE lo)
    ELSE Only({IF s > mid * mid THEN lo + u
               ELSE IF s < mid * mid THEN lo
               ELSE IF (lo \div u) % 2 = 0 THEN lo ELSE lo + u :
               mid \in {lo + u \div 2}})

\* f32::sqrt, correctly rounded
FSqrt(a) ==
    Only({IF IsNan(x) \/ x < 0 THEN NAN
          ELSE IF x = PINF THEN PINF
          ELSE Only({SqrtBetween(x * One, (q \div Ulp(q)) * Ulp(q), Ulp(q)) :
                     q \in {ISqrtFrom(x * One, 0, 2 ^ ((BitLen(x * One) + 1) \div 2))}}) :
          x \in {a}})

\* the comparisons of f32: every comparison with a NaN is false
FEq(a, b) == Only({~IsNan(x) /\ ~IsNan(y) /\ x = y : x \in {a}, y \in {b}})
FLt(a, b) == Only({~IsNan(x) /\ ~IsNan(y) /\ x < y : x \in {a}, y \in {b}})

\* Whether n (an integer count of spacings) is a finite value of the format.
IsFloat(n) == Abs(n) <= MaxFinite /\ RoundRat(n, 1) = n

\* ------------------------------------------------------------ Complex<f32>
Cx(re, im) == [re |-> re, im |-> im]
CZero == Cx(0, 0)
COne == Cx(One, 0)

CNeg(a) == Only({Cx(FNeg(x.re), FNeg(x.im)) : x \in {a}})
CAdd(a, b) == Only({Cx(FAdd(x.re, y.re), FAdd(x.im, y.im)) : x \in {a}, y \in {b}})
CSub(a, b) == Only({Cx(FSub(x.re, y.re), FSub(x.im, y.im)) : x \in {a}, y \in {b}})
CMul(a, b) ==
    Only({Cx(FSub(FMul(x.re, y.re), FMul(x.im, y.im)),
             FAdd(FMul(x.re, y.im), FMul(x.im, y.re))) : x \in {a}, y \in {b}})
CDiv(a, b) ==
    Only({Cx(FDiv(re, norm_sqr), FDiv(im, norm_sqr)) :
          norm_sqr \in {FAdd(FMul(y.re, y.re), FMul(y.im, y.im)) : y \in {b}},
          re \in {FAdd(FMul(x.re, y.re), FMul(x.im, y.im)) : x \in {a}, y \in {b}},
          im \in {FSub(FMul(x.im, y.re), FMul(x.re, y.im)) : x \in {a}, y \in {b}}})
CEq(a, b) == Only({FEq(x.re, y.re) /\ FEq(x.im, y.im) : x \in {a}, y \in {b}})
CIsNan(a) == Only({IsNan(x.re) \/ IsNan(x.im) : x \in {a}})

\* Complex::powu: exponentiation by squaring
RECURSIVE PowAcc(_, _, _)
PowAcc(acc, base, exp) ==
    IF exp <= 1 THEN acc
    ELSE Only({PowAcc(IF (exp \div 2) % 2 = 1 THEN CMul(acc, b) ELSE acc, b, exp \div 2) :
               b \in {CMul(base, base)}})

RECURSIVE PowEven(_, _)
PowEven(base, exp) ==
    IF exp % 2 = 0 THEN PowEven(CMul(base, base), exp \div 2)
    ELSE IF exp = 1 THEN base
    ELSE Only({PowAcc(b, b, exp) : b \in {base}})

powu(z, exp) == IF exp = 0 THEN COne ELSE PowEven(z, exp)

\* ------------------------------------------------------------------ Polynom
\* A Polynom is its coefficient sequence cs, ascending powers; the program
\* multiplies non-empty ones only.

\* impl MulAssign for Polynom: the double loop over (i, j), flattened to
\* t = i * len(rhs) + j, accumulating into res[i+j].
\* ConvFrom(self, rhs, lo, hi, res) is res after the passes lo .. hi - 1
\* (lo < hi), taken in order, the first half of them first.
RECURSIVE ConvFrom(_, _, _, _, _)
ConvFrom(self, rhs, lo, hi, res) ==
    IF hi = lo + 1
    THEN [res EXCEPT ![(lo \div Len(rhs)) + (lo % Len(rhs)) + 1] =
              CAdd(@, CMul(self[(lo \div Len(rhs)) + 1], rhs[(lo % Len(rhs)) + 1]))]
    ELSE Only({ConvFrom(self, rhs, (lo + hi) \div 2, hi, r) :
               r \in {ConvFrom(self, rhs, lo, (lo + hi) \div 2, res)}})

mul_assign(self, rhs) ==
    Only({ConvFrom(a, b, 0, Len(a) * Len(b),
                   [k \in 1..(Len(a) - 1 + Len(b) - 1 + 1) |-> CZero]) :
          a \in {self}, b \in {rhs}})

\* Polynom::at: sum of cs[i] * coord^i, i ascending.  AtFrom(cs, coord, lo,
\* hi, res) is res after the terms lo .. hi - 1 (lo < hi) have been added in
\* order, the first half of them first.
RECURSIVE AtFrom(_, _, _, _, _)
AtFrom(cs, coord, lo, hi, res) ==
    IF hi = lo + 1 THEN CAdd(res, CMul(cs[lo + 1], powu(coord, lo)))
    ELSE Only({AtFrom(cs, coord, (lo + hi) \div 2, hi, r) :
               r \in {AtFrom(cs, coord, lo, (lo + hi) \div 2, res)}})

at(cs, coord) ==
    Only({IF Len(c) = 0 THEN CZero ELSE AtFrom(c, z, 0, Len(c), CZero) :
          c \in {cs}, z \in {coord}})

\* Polynom::from_root: vec![1, -root]
from_root(root) == <<COne, CNeg(root)>>

\* Polynom::from_roots
RECURSIVE FromRootsFrom(_, _, _)
FromRootsFrom(rs, i, acc) ==
    IF i = Len(rs) THEN acc
    ELSE Only({FromRootsFrom(rs, i + 1, a) :
               a \in {mul_assign(acc, from_root(rs[i + 1]))}})

from_roots(rs) == Only({FromRootsFrom(r, 0, <<COne>>) : r \in {rs}})

\* Polynom::derivative (called on a non-empty cs only)
derivative(cs) ==
    Only({[i \in 1..(Len(c) - 1) |-> CMul(Cx(FromInt(i), 0), c[i + 1])] : c \in {cs}})

\* ---------------------------------------------------------------- try_point
distance(a, b) ==
    Only({FSqrt(FAdd(FMul(d.re, d.re), FMul(d.im, d.im))) : d \in {CSub(b, a)}})

\* A stall test that forgets the NaN check.
StallsZeroOnly(yd, z) == CEq(yd, CZero)

\* The stall test of the loop body (line 96).
Stalls(yd, z) == CEq(yd, CZero) \/ CIsNan(z)

\* The Newton step of the loop body (line 99).
NewtonNext(z, yp, yd) == CSub(z, CDiv(yp, yd))

\* A match that reports positions counted from 1.
MatchesFromOne(rs, nc) == {i \in 1..Len(rs) : CEq(rs[i], nc)}

\* The 0-based indices i with roots[i] == nc (lines 100-104 return the first).
Matches(rs, nc) == {i \in 0..(Len(rs) - 1) : CEq(rs[i + 1], nc)}
MinOf(S) == CHOOSE m \in S : \A k \in S : m <= k

\* line 107
DistsOf(rs, z) == Only({[i \in 1..Len(r) |-> distance(p, r[i])] : r \in {rs}, p \in {z}})

\* A scan test that also replaces the minimum on an equal distance.
CloserOrEqual(d, m) == ~IsNan(d) /\ ~IsNan(m) /\ d <= m

\* The test of the fallback scan (line 111).
Closer(d, m) == FLt(d, m)

\* lines 108-116: scan of dists from 0-based index i on
RECURSIVE ScanFrom(_, _, _, _)
ScanFrom(ds, i, m, idx) ==
    IF i >= Len(ds) THEN idx
    ELSE IF Closer(ds[i + 1], m) THEN ScanFrom(ds, i + 1, ds[i + 1], i)
    ELSE ScanFrom(ds, i + 1, m, idx)

Nearest(rs, z) == Only({ScanFrom(ds, 1, ds[1], 0) : ds \in {DistsOf(rs, z)}})

\* lines 95-105, one pass of the loop body from the frame f: the loop goes
\* on from the next point, is left by the break of line 97, or the function
\* returns the first matching index
StepFrom(rs, ply, dr, f) ==
    IF f.at # "loop" THEN f
    ELSE Only({IF Stalls(yd, f.cur) THEN [f EXCEPT !.at = "break"]
               ELSE Only({Only({IF ms # {} THEN [f EXCEPT !.at = "return", !.ret = MinOf(ms)]
                                ELSE [f EXCEPT !.cur = nc] :
                                ms \in {Matches(rs, nc)}}) :
                          nc \in {NewtonNext(f.cur, yp, yd)}}) :
               yp \in {at(ply, f.cur)}, yd \in {at(dr, f.cur)}})

\* lines 94-106: the frame after n >= 1 more passes of the loop from the
\* frame f, the passes taken in order, the first n \div 2 of them first
RECURSIVE LoopFrom(_, _, _, _, _)
LoopFrom(rs, ply, dr, f, n) ==
    IF n = 1 THEN StepFrom(rs, ply, dr, f)
    ELSE Only({LoopFrom(rs, ply, dr, g, n - (n \div 2)) :
               g \in {LoopFrom(rs, ply, dr, f, n \div 2)}})

\* lines 92-117
try_point(rs, ply, dr, c) ==
    Only({IF f.at = "return" THEN f.ret ELSE Nearest(rs, f.cur) :
          f \in {LoopFrom(rs, ply, dr, [cur |-> c, at |-> "loop", ret |-> -1], STEPS)}})

\* ------------------------------------------------------------------- pixels
\* A to_rgb with the bytes low to high.
to_bgr(p) == <<p % 256, (p \div 256) % 256, (p \div 65536) % 256>>

\* to_rgb: the three low bytes of a u32, high to low
to_rgb(p) == <<(p \div 65536) % 256, (p \div 256) % 256, p % 256>>

\* "{}" of a non-negative i32: its decimal digits in ASCII
RECURSIVE Dec(_)
Dec(n) == IF n < 10 THEN <<48 + n>> ELSE Append(Dec(n \div 10), 48 + (n % 10))

\* "P6\n", "{} {}\n", "255\n" as bytes
MagicLine == <<80, 54, 10>>
DimsLine(w, h) == Dec(w) \o <<32>> \o Dec(h) \o <<10>>
MaxLine == <<50, 53, 53, 10>>

\* main, line 155
mx == WIDTH \div 2
my == HEIGHT \div 2

\* main, lines 159-162: the sample point of loop coordinates (x, y)
SampleOf(x, y) == Cx(FDiv(FromInt(x), FromInt(PPX)), FDiv(FromInt(y), FromInt(PPX)))

\* main, line 146: the condition asserted
RootsGiven(rs) == Len(rs) # 0

\* A palette check that only asks for some color.
ColorsNonEmpty(rs, cs) == Len(cs) # 0

\* main, line 147: the condition asserted
ColorsSuffice(rs, cs) == Len(rs) <= Len(cs)

\* -------------------------------------------------------------------- state
VARIABLES
    roots,      \* main: the root list (0-based index i is roots[i+1])
    colors,     \* main: the palette
    pol, der,   \* main: the polynomial and its derivative
    start,      \* try_point: the argument c
    cur,        \* try_point: the running point
    step,       \* try_point: iterations of the for loop completed
    yp, yd, nc, \* try_point: the locals of the loop body
    tp_pc,      \* try_point: "loop", "test", "match", "fallback", "scan",
                \* "done", "panic" ("idle": not called)
    dists, min, index, fi,  \* try_point: the locals of lines 107-115
    ret,        \* try_point: the returned index (-1: none yet)
    via,        \* which return produced ret: "exact" (line 102), "nearest" (line 116)
    divs,       \* history: complex divisions performed (line 99)
    p_pc, p_i,  \* from_roots: position and loop index ("idle": not running)
    p_at,       \* the 0-based index of the root pol was last evaluated at
    pc,         \* main: position ("idle": not running)
    canvas,     \* main: the pixel buffer (write_ppm: the argument canv)
    lx, ly,     \* main: the loop variables x and y of lines 157-158
    front, back,\* rows rendered from the top and from the bottom, when the
    side, dir,  \* rows are taken in another order: the row at hand is taken
                \* from side, and swept in direction dir
    wcount,     \* history: how often each canvas offset was written
    w_pc,       \* write_ppm: position ("idle": not called)
    wx, wy,     \* write_ppm: the loop variables x and y
    out,        \* the bytes written to the stream s
    bw, bh      \* the width and height the caller of write_ppm means canv to have

cfgVars == <<roots, colors, pol, der>>
tpVars == <<start, cur, step, yp, yd, nc, tp_pc, dists, min, index, fi, ret, via, divs>>
polyVars == <<p_pc, p_i, p_at>>
mainVars == <<pc, canvas, lx, ly, wcount, front, back, side, dir>>
ppmVars == <<w_pc, wx, wy, out, bw, bh>>
vars == <<cfgVars, tpVars, polyVars, mainVars, ppmVars>>

\* An offset computed column by column.
CellOfColumnMajor(x, y) == (x + mx) * HEIGHT + (y + my)

\* An offset that is the next free cell, as pushing onto the canvas gives.
CellOfNextFree(x, y) == Cardinality({i \in DOMAIN wcount : wcount[i] > 0})

\* main, line 164: the canvas offset of loop coordinates (x, y)
CellOf(x, y) == (y + my) * WIDTH + (mx + x)

\* ------------------------------------------------------------------ inputs
\* The complex number (a/2, b/2).
Half(a, b) == Cx((a * One) \div 2, (b * One) \div 2)

\* Roots drawn for the pure functions: 1, -1, i, 2, 0.
RootVals == {Half(2, 0), Half(-2, 0), Half(0, 2), Half(4, 0), Half(0, 0)}

RECURSIVE SeqsUpTo(_, _)
SeqsUpTo(S, n) ==
    IF n = 0 THEN {<<>>}
    ELSE LET shorter == SeqsUpTo(S, n - 1)
         IN  shorter \cup {Append(q, v) : q \in {t \in shorter : Len(t) = n - 1}, v \in S}

\* The non-empty root lists, and all of them.
RootLists == SeqsUpTo(RootVals, MaxRoots) \ {<<>>}
RootListsAll == SeqsUpTo(RootVals, MaxRoots)

\* Start points: the roots, points between them, points whose iteration
\* overflows, a NaN and an infinite point.
StartPoints ==
    RootVals \cup
    {Half(1, 0), Half(0, 1), Half(0, -4), Half(3, 3), Half(-1, 2), Half(1, -6),
     Cx(1, 0), Cx(0, MaxFinite), Cx(NAN, 0), Cx(One, PINF)}

\* main, lines 133-138: 0x4a0b58, 0x39538e, 0x1fa0cf, 0x56b861, 0x19858f
ProgramColors == <<4852568, 3756942, 2072783, 5683297, 1672591>>

\* f32 cos(PI / 6): 0.8660254 rounded to the format (sin(PI / 6) is 0.5)
Cos30 == RoundRat(866025 * One, 1000000)

\* main, lines 139-145
ProgramRoots ==
    <<Cx(-One, 0), Cx(Cos30, One \div 2), Cx(Cos30, -(One \div 2)),
      Cx(0, One), Cx(0, -One)>>

\* Configurations main is run with: the program's own, and others that the
\* two constants could be edited to (valid, and invalid in each way).
Configs ==
    {[roots |-> ProgramRoots, colors |-> ProgramColors],
     [roots |-> <<Half(2, 0), Half(-2, 0), Half(0, 2)>>, colors |-> SubSeq(ProgramColors, 1, 4)],
     [roots |-> <<Half(12, 0), Half(-2, 0)>>, colors |-> SubSeq(ProgramColors, 2, 3)],
     [roots |-> <<Half(0, -8), Half(1, 1)>>, colors |-> SubSeq(ProgramColors, 4, 5)],
     [roots |-> <<>>, colors |-> ProgramColors],
     [roots |-> <<>>, colors |-> <<>>],
     [roots |-> <<Half(2, 0), Half(-2, 0)>>, colors |-> SubSeq(ProgramColors, 1, 1)],
     [roots |-> <<Half(0, 2)>>, colors |-> <<>>]}

\* Root lists the polynomial handed to try_point is built from: the root list
\* itself (as main does), or another one (try_point takes pol and der as
\* arguments of their own); <<>> gives the constant 1 with an empty derivative.
PolySources(rs) == {rs, <<>>, <<Half(0, 2), Half(4, 0)>>}

\* ------------------------------------------------- try_point, step by step
TpIdle ==
    /\ start = CZero /\ cur = CZero /\ step = 0 /\ tp_pc = "idle"
    /\ yp = CZero /\ yd = CZero /\ nc = CZero
    /\ dists = <<>> /\ min = 0 /\ index = 0 /\ fi = 0
    /\ ret = -1 /\ via = "none" /\ divs = 0

PolyIdle == p_pc = "idle" /\ p_i = 0 /\ p_at = -1
OrderIdle == front = 0 /\ back = 0 /\ side = "none" /\ dir = 1
MainIdle == pc = "idle" /\ canvas = <<>> /\ lx = 0 /\ ly = 0 /\ wcount = <<>> /\ OrderIdle
PpmIdle == w_pc = "idle" /\ wx = 0 /\ wy = 0 /\ out = <<>> /\ bw = 0 /\ bh = 0

\* line 93: the call try_point(roots, pol, der, c)
TpEnter(c) ==
    /\ start = c /\ cur = c /\ step = 0 /\ tp_pc = "loop"
    /\ yp = CZero /\ yd = CZero /\ nc = CZero
    /\ dists = <<>> /\ min = 0 /\ index = 0 /\ fi = 0
    /\ ret = -1 /\ via = "none" /\ divs = 0

\* The same call made from main: the frame of try_point is set up.
TpCall(c) ==
    /\ start' = c /\ cur' = c /\ step' = 0 /\ tp_pc' = "loop"
    /\ yp' = CZero /\ yd' = CZero /\ nc' = CZero
    /\ dists' = <<>> /\ min' = 0 /\ index' = 0 /\ fi' = 0
    /\ ret' = -1 /\ via' = "none" /\ divs' = 0

\* The frame of try_point is dropped after its return.
TpDrop ==
    /\ start' = CZero /\ cur' = CZero /\ step' = 0 /\ tp_pc' = "idle"
    /\ yp' = CZero /\ yd' = CZero /\ nc' = CZero
    /\ dists' = <<>> /\ min' = 0 /\ index' = 0 /\ fi' = 0
    /\ ret' = -1 /\ via' = "none" /\ divs' = 0

InitTry ==
    /\ roots \in RootListsAll
    /\ colors = <<>>
    /\ \E src \in PolySources(roots) : pol = from_roots(src)
    /\ der = derivative(pol)
    /\ \E c \in StartPoints : TpEnter(c)
    /\ PolyIdle /\ MainIdle /\ PpmIdle

\* line 95
LoopEval ==
    /\ tp_pc = "loop" /\ step < STEPS
    /\ yp' = at(pol, cur)
    /\ yd' = at(der, cur)
    /\ tp_pc' = "test"
    /\ UNCHANGED <<cfgVars, polyVars, mainVars, ppmVars>>
    /\ UNCHANGED <<start, cur, step, nc, dists, min, index, fi, ret, via, divs>>

\* lines 96-97: break
LoopBreak ==
    /\ tp_pc = "test"
    /\ Stalls(yd, cur)
    /\ tp_pc' = "fallback"
    /\ UNCHANGED <<cfgVars, polyVars, mainVars, ppmVars>>
    /\ UNCHANGED <<start, cur, step, yp, yd, nc, dists, min, index, fi, ret, via, divs>>

\* line 99
LoopNewton ==
    /\ tp_pc = "test"
    /\ ~Stalls(yd, cur)
    /\ nc' = NewtonNext(cur, yp, yd)
    /\ divs' = divs + 1
    /\ tp_pc' = "match"
    /\ UNCHANGED <<cfgVars, polyVars, mainVars, ppmVars>>
    /\ UNCHANGED <<start, cur, step, yp, yd, dists, min, index, fi, ret, via>>

\* lines 100-104: nc is a root, return its index
LoopReturn ==
    /\ tp_pc = "match"
    /\ Matches(roots, nc) # {}
    /\ ret' = MinOf(Matches(roots, nc))
    /\ via' = "exact"
    /\ tp_pc' = "done"
    /\ UNCHANGED <<cfgVars, polyVars, mainVars, ppmVars>>
    /\ UNCHANGED <<start, cur, step, yp, yd, nc, dists, min, index, fi, divs>>

\* line 105: no root matched, cur = nc
LoopContinue ==
    /\ tp_pc = "match"
    /\ Matches(roots, nc) = {}
    /\ cur' = nc
    /\ step' = step + 1
    /\ tp_pc' = "loop"
    /\ UNCHANGED <<cfgVars, polyVars, mainVars, ppmVars>>
    /\ UNCHANGED <<start, yp, yd, nc, dists, min, index, fi, ret, via, divs>>

\* line 94: the range 0..STEPS is used up
LoopExhaust ==
    /\ tp_pc = "loop" /\ step >= STEPS
    /\ tp_pc' = "fallback"
    /\ UNCHANGED <<cfgVars, polyVars, mainVars, ppmVars>>
    /\ UNCHANGED <<start, cur, step, yp, yd, nc, dists, min, index, fi, ret, via, divs>>

\* lines 107-109; dists.first().unwrap() panics when there is no root
FallbackStart ==
    /\ tp_pc = "fallback"
    /\ IF Len(roots) > 0
       THEN /\ dists' = DistsOf(roots, cur)
            /\ index' = 0
            /\ min' = dists'[1]
            /\ fi' = 1
            /\ tp_pc' = "scan"
       ELSE /\ tp_pc' = "panic"
            /\ UNCHANGED <<dists, index, min, fi>>
    /\ UNCHANGED <<cfgVars, polyVars, mainVars, ppmVars>>
    /\ UNCHANGED <<start, cur, step, yp, yd, nc, ret, via, divs>>

\* lines 110-114, the test holds
ScanTake ==
    /\ tp_pc = "scan" /\ fi < Len(dists)
    /\ Closer(dists[fi + 1], min)
    /\ min' = dists[fi + 1]
    /\ index' = fi
    /\ fi' = fi + 1
    /\ UNCHANGED <<cfgVars, polyVars, mainVars, ppmVars>>
    /\ UNCHANGED <<start, cur, step, yp, yd, nc, tp_pc, dists, ret, via, divs>>

\* lines 110-114, the test fails
ScanSkip ==
    /\ tp_pc = "scan" /\ fi < Len(dists)
    /\ ~Closer(dists[fi + 1], min)
    /\ fi' = fi + 1
    /\ UNCHANGED <<cfgVars, polyVars, mainVars, ppmVars>>
    /\ UNCHANGED <<start, cur, step, yp, yd, nc, tp_pc, dists, min, index, ret, via, divs>>

\* line 116
ScanEnd ==
    /\ tp_pc = "scan" /\ fi >= Len(dists)
    /\ ret' = index
    /\ via' = "nearest"
    /\ tp_pc' = "done"
    /\ UNCHANGED <<cfgVars, polyVars, mainVars, ppmVars>>
    /\ UNCHANGED <<start, cur, step, yp, yd, nc, dists, min, index, fi, divs>>

NextTry ==
    \/ LoopEval
    \/ LoopBreak
    \/ LoopNewton
    \/ LoopReturn
    \/ LoopContinue
    \/ LoopExhaust
    \/ FallbackStart
    \/ ScanTake
    \/ ScanSkip
    \/ ScanEnd

SpecTry == InitTry /\ [][NextTry]_vars

\* The step-by-step run and the function try_point agree.
TryAgrees == tp_pc = "done" => ret = try_point(roots, pol, der, start)

\* ------------------------------------------------------ claims on try_point
RootIndices == 0..(Len(roots) - 1)
Distinct(rs) == \A i, j \in 1..Len(rs) : i # j => rs[i] # rs[j]
BuiltFromRoots == pol = from_roots(roots) /\ der = derivative(pol)

\* Steps try_point has left at most: three per remaining iteration, then the
\* fallback with one step per root.
Rank ==
    LET tail == Len(roots) + 3
        left == 3 * (STEPS - step)
    IN  CASE tp_pc = "loop" -> left + 3 + tail
          [] tp_pc = "test" -> left + 2 + tail
          [] tp_pc = "match" -> left + 1 + tail
          [] tp_pc = "fallback" -> Len(roots) + 2
          [] tp_pc = "scan" -> Len(roots) + 1 - fi
          [] OTHER -> 0

\* What C1 says of every state of a call with a non-empty root list.
C1_Safe ==
    /\ Rank >= 0
    /\ roots # <<>> =>
        /\ step <= STEPS /\ divs <= STEPS
        /\ tp_pc # "panic"
        /\ tp_pc = "done" => ret \in RootIndices

\* C1: for every non-empty root list, every polynomial/derivative pair and
\* every start point (NaN and zero-derivative ones included) try_point does
\* not fail, performs at most STEPS Newton iterations, and what it returns is
\* an index i with 0 <= i < roots.len(); every step brings the return nearer
\* (Rank decreases), so the call ends within 3 * STEPS + roots.len() + 6 steps.
C1_TryPointTotal == []C1_Safe /\ [][Rank' < Rank]_vars

\* C1 witness: a run whose iterate became NaN on the way (the start was not)
\* has returned a valid index.
C1_Witness ==
    /\ tp_pc = "done" /\ ~CIsNan(start) /\ CIsNan(cur)
    /\ divs > 0 /\ ret \in RootIndices

\* C4 (as claimed): started exactly on root i of a list of distinct roots,
\* with the polynomial and derivative main builds from that list, try_point
\* returns i from the first iteration through the exact-match return: no
\* stall, and the first Newton step equals the start point.
C4_StartOnRootReturnsIt ==
    (/\ tp_pc = "done" /\ BuiltFromRoots /\ Distinct(roots)
     /\ \E i \in RootIndices : roots[i + 1] = start)
    => (/\ via = "exact" /\ step = 0 /\ divs = 1
        /\ nc = start /\ roots[ret + 1] = start)

\* C5: a result of the nearest-root fallback is the smallest index among the
\* roots at minimal distance from the final point: no root is strictly nearer
\* than the one returned, and every earlier root is strictly farther (so of
\* two equidistant roots the first wins).
C5_FirstNearestWins ==
    (tp_pc = "done" /\ via = "nearest")
    => /\ ret \in RootIndices
       /\ \A j \in RootIndices :
            /\ ~FLt(distance(cur, roots[j + 1]), distance(cur, roots[ret + 1]))
            /\ j < ret =>
                  FLt(distance(cur, roots[ret + 1]), distance(cur, roots[j + 1]))

\* C5 witness: two different roots at the same finite distance from the final
\* point, and the fallback returned index 0.
C5_Witness ==
    /\ tp_pc = "done" /\ via = "nearest" /\ Len(roots) >= 2
    /\ roots[1] # roots[2]
    /\ FEq(distance(cur, roots[1]), distance(cur, roots[2]))
    /\ ~IsInf(distance(cur, roots[1]))
    /\ ret = 0

\* The iteration at hand stalls: yd is exactly zero or cur is NaN.
StallNow == tp_pc = "test" /\ (CEq(yd, CZero) \/ CIsNan(cur))

\* A stalling iteration breaks out: no division, cur kept, nothing returned.
StallBreaks ==
    StallNow => /\ tp_pc' = "fallback"
                /\ cur' = cur /\ divs' = divs /\ step' = step
                /\ ret' = -1 /\ via' = "none"

\* The fallback keeps cur and returns the nearest root of it.
FallbackKeepsPoint ==
    (roots # <<>> /\ tp_pc \in {"fallback", "scan"}) =>
        /\ cur' = cur /\ divs' = divs
        /\ tp_pc' \in {"scan", "done"}
        /\ tp_pc' = "done" => (via' = "nearest" /\ ret' = Nearest(roots, cur))

\* C9: an iteration whose derivative value is exactly zero or whose current
\* point is NaN leaves the loop at once: no division, no update of cur, no
\* exact-match return; cur stays as it is through the fallback, and the
\* result is the nearest-root fallback at that point (the root list being
\* non-empty).
C9_StallFallsBack == [][StallBreaks /\ FallbackKeepsPoint]_vars

\* C9 witness: a run that stalled on a NaN iterate reached in the loop and
\* has returned through the fallback.
C9_Witness ==
    /\ tp_pc = "done" /\ via = "nearest" /\ step < STEPS
    /\ CIsNan(cur) /\ ~CIsNan(start) /\ ret = Nearest(roots, cur)

\* ------------------------------------------- from_roots, derivative and at
\* main, lines 148-149, with the loop of from_roots step by step, followed by
\* evaluations of the polynomial at the roots it was built from.
InitPoly ==
    /\ roots \in RootListsAll
    /\ colors = <<>>
    /\ pol = <<COne>>            \* lines 68-70
    /\ der = <<>>
    /\ p_pc = "build" /\ p_i = 0 /\ p_at = -1
    /\ TpIdle /\ MainIdle /\ PpmIdle

\* line 72: pol *= Polynom::from_root(roots[i])
MulRoot ==
    /\ p_pc = "build" /\ p_i < Len(roots)
    /\ pol' = mul_assign(pol, from_root(roots[p_i + 1]))
    /\ p_i' = p_i + 1
    /\ UNCHANGED <<roots, colors, der, p_pc, p_at, tpVars, mainVars, ppmVars>>

\* line 74
BuildDone ==
    /\ p_pc = "build" /\ p_i >= Len(roots)
    /\ p_pc' = "built"
    /\ UNCHANGED <<cfgVars, p_i, p_at, tpVars, mainVars, ppmVars>>

\* line 149: let der = pol.derivative()
Derive ==
    /\ p_pc = "built"
    /\ der' = derivative(pol)
    /\ p_pc' = "ready"
    /\ UNCHANGED <<roots, colors, pol, p_i, p_at, tpVars, mainVars, ppmVars>>

\* pol.at(roots[i])
EvalAtRoot ==
    /\ p_pc = "ready"
    /\ \E i \in 0..(Len(roots) - 1) :
          /\ yp' = at(pol, roots[i + 1])
          /\ p_at' = i
    /\ UNCHANGED <<cfgVars, p_pc, p_i, mainVars, ppmVars>>
    /\ UNCHANGED <<start, cur, step, yd, nc, tp_pc, dists, min, index, fi, ret, via, divs>>

NextPoly ==
    \/ MulRoot
    \/ BuildDone
    \/ Derive
    \/ EvalAtRoot

SpecPoly == InitPoly /\ [][NextPoly]_vars

\* The loop of from_roots, run step by step, computes from_roots.
PolyAgrees == p_pc \in {"built", "ready"} => pol = from_roots(roots)

\* C2 (as claimed): the polynomial built by from_roots from a non-empty root
\* list evaluates with at() to zero at every root of the list.
C2_RootsEvaluateToZero ==
    (p_pc = "ready" /\ p_at >= 0) => CEq(yp, CZero)

\* C3 (as claimed): for a single root r, the derivative of from_roots([r]) is
\* the constant polynomial whose only coefficient is 1.
C3_SingleRootDerivativeIsOne ==
    (p_pc = "ready" /\ Len(roots) = 1) => der = <<COne>>

\* -------------------------------------------------------------------- main
InitMain ==
    /\ \E cfg \in Configs : roots = cfg.roots /\ colors = cfg.colors
    /\ pol = <<>> /\ der = <<>>
    /\ pc = "assert_roots" /\ canvas = <<>> /\ lx = 0 /\ ly = 0 /\ wcount = <<>>
    /\ OrderIdle
    /\ TpIdle /\ PolyIdle /\ PpmIdle

\* line 146: assert!(roots.len() != 0)
AssertRootsPass ==
    /\ pc = "assert_roots" /\ RootsGiven(roots)
    /\ pc' = "assert_colors"
    /\ UNCHANGED <<cfgVars, tpVars, polyVars, ppmVars>>
    /\ UNCHANGED <<canvas, lx, ly, wcount, front, back, side, dir>>

AssertRootsFail ==
    /\ pc = "assert_roots" /\ ~RootsGiven(roots)
    /\ pc' = "abort"
    /\ UNCHANGED <<cfgVars, tpVars, polyVars, ppmVars>>
    /\ UNCHANGED <<canvas, lx, ly, wcount, front, back, side, dir>>

\* line 147: assert!(roots.len() <= colors.len())
AssertColorsPass ==
    /\ pc = "assert_colors" /\ ColorsSuffice(roots, colors)
    /\ pc' = "build"
    /\ UNCHANGED <<cfgVars, tpVars, polyVars, ppmVars>>
    /\ UNCHANGED <<canvas, lx, ly, wcount, front, back, side, dir>>

AssertColorsFail ==
    /\ pc = "assert_colors" /\ ~ColorsSuffice(roots, colors)
    /\ pc' = "abort"
    /\ UNCHANGED <<cfgVars, tpVars, polyVars, ppmVars>>
    /\ UNCHANGED <<canvas, lx, ly, wcount, front, back, side, dir>>

\* lines 148-149
BuildPolynoms ==
    /\ pc = "build"
    /\ pol' = from_roots(roots)
    /\ der' = derivative(pol')
    /\ pc' = "alloc"
    /\ UNCHANGED <<roots, colors, tpVars, polyVars, ppmVars>>
    /\ UNCHANGED <<canvas, lx, ly, wcount, front, back, side, dir>>

\* lines 153-155 and the loop heads of lines 157-158
AllocCanvas ==
    /\ pc = "alloc"
    /\ canvas' = [i \in 1..(WIDTH * HEIGHT) |-> 0]
    /\ wcount' = [i \in 1..(WIDTH * HEIGHT) |-> 0]
    /\ ly' = -my /\ lx' = -mx
    /\ pc' = "render"
    /\ UNCHANGED <<cfgVars, tpVars, polyVars, ppmVars, front, back, side, dir>>

\* lines 159-163: the call of try_point at the sample of (x, y)
CallTryPoint ==
    /\ pc = "render" /\ ly < my /\ lx < mx
    /\ TpCall(SampleOf(lx, ly))
    /\ pc' = "classify"
    /\ UNCHANGED <<cfgVars, polyVars, ppmVars>>
    /\ UNCHANGED <<canvas, lx, ly, wcount, front, back, side, dir>>

\* line 164 at loop coordinates (x, y), c being what try_point returned: the
\* color of root c is stored; an index out of range panics.
StoreAt(x, y, c, then) ==
    IF (c + 1) \in DOMAIN colors /\ (CellOf(x, y) + 1) \in DOMAIN canvas
    THEN /\ canvas' = [canvas EXCEPT ![CellOf(x, y) + 1] = colors[c + 1]]
         /\ wcount' = [wcount EXCEPT ![CellOf(x, y) + 1] = @ + 1]
         /\ pc' = then
    ELSE /\ pc' = "panic"
         /\ UNCHANGED <<canvas, wcount>>

\* line 164 and the step of the loops of lines 157-158
StorePixel ==
    /\ pc = "classify" /\ tp_pc = "done"
    /\ StoreAt(lx, ly, ret, "render")
    /\ lx' = IF lx + 1 < mx THEN lx + 1 ELSE -mx
    /\ ly' = IF lx + 1 < mx THEN ly ELSE ly + 1
    /\ TpDrop
    /\ UNCHANGED <<cfgVars, polyVars, ppmVars, front, back, side, dir>>

\* line 157: the range -my..my is used up
RenderDone ==
    /\ pc = "render" /\ ly >= my
    /\ pc' = "rendered"
    /\ UNCHANGED <<cfgVars, tpVars, polyVars, ppmVars>>
    /\ UNCHANGED <<canvas, lx, ly, wcount, front, back, side, dir>>

\* lines 167-168: the file is created and write_ppm called with the canvas
OpenAndWrite ==
    /\ pc = "rendered"
    /\ pc' = "write"
    /\ w_pc' = "magic" /\ wx' = 0 /\ wy' = 0 /\ out' = <<>>
    /\ bw' = WIDTH /\ bh' = HEIGHT
    /\ UNCHANGED <<cfgVars, tpVars, polyVars>>
    /\ UNCHANGED <<canvas, lx, ly, wcount, front, back, side, dir>>

\* line 169
MainExit ==
    /\ pc = "write" /\ w_pc = "ok"
    /\ pc' = "exit"
    /\ UNCHANGED <<cfgVars, tpVars, polyVars, ppmVars>>
    /\ UNCHANGED <<canvas, lx, ly, wcount, front, back, side, dir>>

\* --------------------------------------------------------------- write_ppm
\* line 120
WriteMagic ==
    /\ w_pc = "magic"
    /\ out' = out \o MagicLine
    /\ w_pc' = "dims"
    /\ UNCHANGED <<cfgVars, tpVars, polyVars, mainVars, wx, wy, bw, bh>>

\* line 121
WriteDims ==
    /\ w_pc = "dims"
    /\ out' = out \o DimsLine(WIDTH, HEIGHT)
    /\ w_pc' = "max"
    /\ UNCHANGED <<cfgVars, tpVars, polyVars, mainVars, wx, wy, bw, bh>>

\* line 122 and the loop heads of lines 123-124
WriteMax ==
    /\ w_pc = "max"
    /\ out' = out \o MaxLine
    /\ wy' = 0 /\ wx' = 0
    /\ w_pc' = "pixels"
    /\ UNCHANGED <<cfgVars, tpVars, polyVars, mainVars, bw, bh>>

\* lines 125-126: one pass of the inner loop; canv[..] out of range panics
WritePixel ==
    /\ w_pc = "pixels" /\ wy < HEIGHT /\ wx < WIDTH
    /\ IF (wy * WIDTH + wx + 1) \in DOMAIN canvas
       THEN /\ out' = out \o to_rgb(canvas[wy * WIDTH + wx + 1])
            /\ wx' = IF wx + 1 < WIDTH THEN wx + 1 ELSE 0
            /\ wy' = IF wx + 1 < WIDTH THEN wy ELSE wy + 1
            /\ w_pc' = w_pc
       ELSE /\ w_pc' = "panic"
            /\ UNCHANGED <<out, wx, wy>>
    /\ UNCHANGED <<cfgVars, tpVars, polyVars, mainVars, bw, bh>>

\* line 129
WriteOk ==
    /\ w_pc = "pixels" /\ wy >= HEIGHT
    /\ w_pc' = "ok"
    /\ UNCHANGED <<cfgVars, tpVars, polyVars, mainVars, wx, wy, out, bw, bh>>

NextMain ==
    \/ AssertRootsPass
    \/ AssertRootsFail
    \/ AssertColorsPass
    \/ AssertColorsFail
    \/ BuildPolynoms
    \/ AllocCanvas
    \/ CallTryPoint
    \/ NextTry
    \/ StorePixel
    \/ RenderDone
    \/ OpenAndWrite
    \/ WriteMagic
    \/ WriteDims
    \/ WriteMax
    \/ WritePixel
    \/ WriteOk
    \/ MainExit

SpecMain == InitMain /\ [][NextMain]_vars

\* What the loop of lines 157-166 is to leave in the canvas: cell y*WIDTH + x
\* holds the color of the root try_point returns for the sample of pixel (x, y).
SampleOfPixel(x, y) ==
    Cx(FDiv(FromInt(x - (WIDTH \div 2)), FromInt(PPX)),
       FDiv(FromInt(y - (HEIGHT \div 2)), FromInt(PPX)))

ExpectedCell(x, y) == colors[try_point(roots, pol, der, SampleOfPixel(x, y)) + 1]

\* C6: once the rasterization loop is through, for every pixel (x, y) with
\* 0 <= x < WIDTH and 0 <= y < HEIGHT the canvas cell at row-major offset
\* y*WIDTH + x holds colors[try_point(sample)], the sample being
\* ((x - WIDTH/2)/PPX, (y - HEIGHT/2)/PPX); every cell has been written exactly
\* once, and no offset outside [0, WIDTH*HEIGHT) is ever written (such a write
\* would panic).
C6_CanvasHoldsClassification ==
    /\ pc # "panic"
    /\ pc = "rendered" =>
        /\ Len(canvas) = WIDTH * HEIGHT
        /\ \A y \in 0..(HEIGHT - 1) : \A x \in 0..(WIDTH - 1) :
            /\ canvas[y * WIDTH + x + 1] = ExpectedCell(x, y)
            /\ wcount[y * WIDTH + x + 1] = 1

C6_Witness ==
    /\ pc = "rendered"
    /\ roots = ProgramRoots
    /\ \E i, j \in DOMAIN canvas : canvas[i] # canvas[j]
    /\ \A i \in DOMAIN wcount : wcount[i] = 1

\* The third check the configuration is said to pass: every root within the
\* visible half-extent of the image.
InWindow(rs) ==
    \A i \in DOMAIN rs :
        /\ ~FLt(FDiv(FromInt(WIDTH), FromInt(2 * PPX)), IF FLt(rs[i].re, 0) THEN FNeg(rs[i].re) ELSE rs[i].re)
        /\ ~FLt(FDiv(FromInt(HEIGHT), FromInt(2 * PPX)), IF FLt(rs[i].im, 0) THEN FNeg(rs[i].im) ELSE rs[i].im)

Untouched == canvas = <<>> /\ wcount = <<>> /\ tp_pc = "idle" /\ pol = <<>> /\ der = <<>>
Started == pc \notin {"assert_roots", "assert_colors", "abort"}
NoRoot == Len(roots) = 0
ShortPalette == Len(colors) < Len(roots)

Pattern(n, a, b) == [i \in 1..n |-> a * i + b]

Buffers ==
    {[px |-> Pattern(WIDTH * HEIGHT, 1234567, 1795162112), w |-> WIDTH, h |-> HEIGHT],
     [px |-> Pattern(WIDTH * HEIGHT, 65793, 0), w |-> WIDTH, h |-> HEIGHT],
     [px |-> [i \in 1..(WIDTH * HEIGHT) |-> ProgramColors[(i % 5) + 1]], w |-> HEIGHT, h |-> WIDTH],
     [px |-> <<16711680, 65280>>, w |-> 2, h |-> 1],
     [px |-> Pattern(WIDTH, 255, 0), w |-> WIDTH, h |-> 1],
     [px |-> <<>>, w |-> 0, h |-> 0]}

InitPpm ==
    /\ \E b \in Buffers : canvas = b.px /\ bw = b.w /\ bh = b.h
    /\ roots = <<>> /\ colors = <<>> /\ pol = <<>> /\ der = <<>>
    /\ pc = "write" /\ lx = 0 /\ ly = 0 /\ wcount = <<>> /\ OrderIdle
    /\ w_pc = "magic" /\ wx = 0 /\ wy = 0 /\ out = <<>>
    /\ TpIdle /\ PolyIdle

NextPpm ==
    \/ WriteMagic
    \/ WriteDims
    \/ WriteMax
    \/ WritePixel
    \/ WriteOk

SpecPpm == InitPpm /\ [][NextPpm]_vars

\* The bytes of the first n pixels of a buffer: byte j (0, 1, 2) of pixel p
\* is (p >> (16 - 8j)) & 0xFF.
Shift(j) == IF j = 0 THEN 65536 ELSE IF j = 1 THEN 256 ELSE 1
PixelBytes(px, n) == [k \in 1..(3 * n) |-> (px[((k - 1) \div 3) + 1] \div Shift((k - 1) % 3)) % 256]
Header(w, h) == <<80, 54, 10>> \o Dec(w) \o <<32>> \o Dec(h) \o <<10, 50, 53, 53, 10>>
Least(a, b) == IF a < b THEN a ELSE b
Finished == w_pc \in {"ok", "panic"}

\* C7 as the code has it: write_ppm emits the header "P6\n", "<WIDTH> <HEIGHT>\n",
\* "255\n" built from the program's WIDTH and HEIGHT, whatever the buffer, then
\* in row-major order the three bytes (p >> 16) & 0xFF, (p >> 8) & 0xFF,
\* p & 0xFF of each pixel p; for a buffer of at least WIDTH*HEIGHT pixels that
\* is exactly WIDTH*HEIGHT*3 bytes and the call returns, and for a shorter
\* buffer the bytes of all its pixels, after which the call panics.
C7_EncodesProgramSize ==
    Finished =>
        /\ out = Header(WIDTH, HEIGHT) \o PixelBytes(canvas, Least(Len(canvas), WIDTH * HEIGHT))
        /\ w_pc = "ok" <=> Len(canvas) >= WIDTH * HEIGHT

C7_Witness ==
    /\ w_pc = "ok"
    /\ Len(out) = Len(Header(WIDTH, HEIGHT)) + 3 * WIDTH * HEIGHT
    /\ \E i \in DOMAIN canvas : canvas[i] >= 16777216
    /\ \E k \in DOMAIN out : out[k] > 127

\* C7 as stated: the header is built from the buffer's own width and height
\* and is followed by exactly width*height*3 bytes; a 2x1 buffer
\* [0xFF0000, 0x00FF00] encodes to "P6\n2 1\n255\n" FF 00 00 00 FF 00.
C7_HeaderFromBuffer ==
    Finished =>
        /\ w_pc = "ok"
        /\ out = Header(bw, bh) \o PixelBytes(canvas, bw * bh)
        /\ canvas = <<16711680, 65280>> =>
             out = <<80, 54, 10, 50, 32, 49, 10, 50, 53, 53, 10, 255, 0, 0, 0, 255, 0>>

\* ------------------------------------------ the pixels in another order
\* The state main has at line 156, for the program's configuration and for
\* one with three roots and a color to spare.
OrderConfigs ==
    {cfg \in Configs : Len(cfg.roots) >= 3 /\ Len(cfg.colors) >= Len(cfg.roots)}

InitAnyOrder ==
    /\ \E cfg \in OrderConfigs : roots = cfg.roots /\ colors = cfg.colors
    /\ pol = from_roots(roots)
    /\ der = derivative(pol)
    /\ canvas = [i \in 1..(WIDTH * HEIGHT) |-> 0]
    /\ wcount = [i \in 1..(WIDTH * HEIGHT) |-> 0]
    /\ pc = "render" /\ lx = 0 /\ ly = 0 /\ OrderIdle
    /\ TpIdle /\ PolyIdle /\ PpmIdle

\* The next row of lines 157-158 is the topmost or the bottommost row left,
\* and is swept from the left or from the right.
PickRow ==
    /\ pc = "render" /\ front + back < HEIGHT
    /\ \E s \in {"front", "back"}, d \in {1, -1} :
        /\ side' = s /\ dir' = d
        /\ ly' = IF s = "front" THEN front - my ELSE my - 1 - back
        /\ lx' = IF d = 1 THEN -mx ELSE mx - 1
    /\ pc' = "row"
    /\ UNCHANGED <<cfgVars, tpVars, polyVars, ppmVars, canvas, wcount, front, back>>

RowEnds == lx + dir < -mx \/ lx + dir >= mx

\* lines 159-164 for the pixel at hand, the call of try_point included, and
\* the step to the next pixel of the row
RenderAnyPixel ==
    /\ pc = "row"
    /\ \E c \in {try_point(roots, pol, der, SampleOf(lx, ly))} :
        StoreAt(lx, ly, c, IF RowEnds THEN "render" ELSE "row")
    /\ lx' = lx + dir
    /\ front' = IF RowEnds /\ side = "front" THEN front + 1 ELSE front
    /\ back' = IF RowEnds /\ side = "back" THEN back + 1 ELSE back
    /\ UNCHANGED <<cfgVars, tpVars, polyVars, ppmVars, ly, side, dir>>

\* every row has been rendered: the loops are left and their variables with
\* them (side and dir stay as the last row had them)
OrderDone ==
    /\ pc = "render" /\ front + back = HEIGHT
    /\ pc' = "rendered"
    /\ lx' = 0 /\ ly' = 0 /\ front' = 0 /\ back' = 0
    /\ UNCHANGED <<cfgVars, tpVars, polyVars, ppmVars>>
    /\ UNCHANGED <<canvas, wcount, side, dir>>

NextAnyOrder ==
    \/ PickRow
    \/ RenderAnyPixel
    \/ OrderDone

SpecAnyOrder == InitAnyOrder /\ [][NextAnyOrder]_vars

\* The canvas the row-major sequential loop of lines 157-166 ends with.
SequentialCanvas ==
    [i \in 1..(WIDTH * HEIGHT) |-> ExpectedCell((i - 1) % WIDTH, (i - 1) \div WIDTH)]

EndsAsSequential == pc = "rendered" => canvas = SequentialCanvas
ConfigKept == roots' = roots /\ colors' = colors /\ pol' = pol /\ der' = der

\* C10: whatever the order the pixels are processed in, the canvas ends as the
\* row-major sequential loop leaves it, no step panics, and no step changes
\* the roots, the polynomial, the derivative or the palette.
C10_OrderIndependent ==
    /\ [](EndsAsSequential /\ pc # "panic")
    /\ [][ConfigKept]_vars

C10_Witness ==
    /\ pc = "rendered"
    /\ side = "front" /\ dir = -1
    /\ roots = ProgramRoots
    /\ \E i, j \in DOMAIN canvas : canvas[i] # canvas[j]
====
